---- MODULE Spec2Model ----
(***************************************************************************)
(* ShowTailsOCR: the OCR run (page-load handler and runOCR) and the text   *)
(* pipeline preClean -> segmentRabbits -> parseSection -> renderReadable / *)
(* renderTSV.                                                              *)
(*                                                                         *)
(* A JavaScript string is a sequence of one-character strings; a regular   *)
(* expression is an operator giving the length of its match at a position  *)
(* (0 when it does not match there; none of the expressions of the program *)
(* matches the empty string), with the greedy / lazy choices the engine    *)
(* makes.                                                                  *)
(***************************************************************************)
EXTENDS Integers, Sequences, FiniteSets, TLC

-----------------------------------------------------------------------------
(* Characters and character classes                                        *)

UpperSeq == <<"A","B","C","D","E","F","G","H","I","J","K","L","M",
              "N","O","P","Q","R","S","T","U","V","W","X","Y","Z">>
LowerSeq == <<"a","b","c","d","e","f","g","h","i","j","k","l","m",
              "n","o","p","q","r","s","t","u","v","w","x","y","z">>

UpperCh == {UpperSeq[k] : k \in DOMAIN UpperSeq}
LowerCh == {LowerSeq[k] : k \in DOMAIN LowerSeq}
LetterCh == UpperCh \cup LowerCh
DigitCh == {"0","1","2","3","4","5","6","7","8","9"}
\* \w
WordCh == LetterCh \cup DigitCh \cup {"_"}
\* \s
SpaceCh == {" ", "\t", "\n", "\r"}

toLowerCase(c) ==
    IF c \in UpperCh THEN LowerSeq[CHOOSE k \in DOMAIN UpperSeq : UpperSeq[k] = c] ELSE c

toUpperCase(c) ==
    IF c \in LowerCh THEN UpperSeq[CHOOSE k \in DOMAIN LowerSeq : LowerSeq[k] = c] ELSE c

\* a character class under the i flag
CI(class) == {c \in LetterCh \cup DigitCh \cup class : toLowerCase(c) \in {toLowerCase(d) : d \in class}}

\* the literal lit stands at position i of s
LitAt(s, i, lit) ==
    /\ i >= 1
    /\ i + Len(lit) - 1 <= Len(s)
    /\ \A k \in 1..Len(lit) : s[i + k - 1] = lit[k]

\* the same under the i flag
LitAtCI(s, i, lit) ==
    /\ i >= 1
    /\ i + Len(lit) - 1 <= Len(s)
    /\ \A k \in 1..Len(lit) : toLowerCase(s[i + k - 1]) = toLowerCase(lit[k])

\* s[i] exists and is in the class
ChAt(s, i, class) == i >= 1 /\ i <= Len(s) /\ s[i] \in class

\* length of the longest run of class characters starting at position i (class*)
RECURSIVE Run(_, _, _)
Run(s, i, class) ==
    IF ChAt(s, i, class) THEN 1 + Run(s, i + 1, class) ELSE 0

\* \b between positions i-1 and i
WordBoundary(s, i) == ChAt(s, i - 1, WordCh) # ChAt(s, i, WordCh)

\* s.slice(i-1, j)
Slice(s, i, j) == IF i > j THEN << >> ELSE SubSeq(s, i, j)

\* String.prototype.trim
trim(s) ==
    LET keep == {k \in 1..Len(s) : s[k] \notin SpaceCh}
    IN IF keep = {} THEN << >>
       ELSE SubSeq(s, CHOOSE k \in keep : \A j \in keep : k <= j,
                      CHOOSE k \in keep : \A j \in keep : k >= j)

RECURSIVE Flatten(_)
Flatten(ss) == IF ss = << >> THEN << >> ELSE Head(ss) \o Flatten(Tail(ss))

NoMatch == [len |-> 0, out |-> << >>]
Match(n, out) == [len |-> n, out |-> out]

-----------------------------------------------------------------------------
(* preClean: the replacements of src/ocr.js:45-60, each as "match at i"    *)

\* /\r/g -> '\n'
rxCR(s, i) == IF s[i] = "\r" THEN Match(1, <<"\n">>) ELSE NoMatch

\* /\n{2,}/g -> '\n'
rxNewlines(s, i) ==
    LET n == Run(s, i, {"\n"}) IN IF n >= 2 THEN Match(n, <<"\n">>) ELSE NoMatch

\* /[ \t]{2,}/g -> ' '
rxBlanks(s, i) ==
    LET n == Run(s, i, {" ", "\t"}) IN IF n >= 2 THEN Match(n, <<" ">>) ELSE NoMatch

\* /ariety/gi -> 'Variety'
rxVariety(s, i) ==
    IF LitAtCI(s, i, <<"a","r","i","e","t","y">>)
    THEN Match(6, <<"V","a","r","i","e","t","y">>) ELSE NoMatch

\* /We[il1]?ght/gi -> 'Weight'
rxWeight(s, i) ==
    IF ~LitAtCI(s, i, <<"W","e">>) THEN NoMatch
    ELSE IF ChAt(s, i + 2, CI({"i","l","1"})) /\ LitAtCI(s, i + 3, <<"g","h","t">>)
         THEN Match(6, <<"W","e","i","g","h","t">>)
    ELSE IF LitAtCI(s, i + 2, <<"g","h","t">>)
         THEN Match(5, <<"W","e","i","g","h","t">>)
    ELSE NoMatch

\* /Leg[s5]/gi -> 'Legs'
rxLegs(s, i) ==
    IF LitAtCI(s, i, <<"L","e","g">>) /\ ChAt(s, i + 3, CI({"s","5"}))
    THEN Match(4, <<"L","e","g","s">>) ELSE NoMatch

\* /\bRe[gq][\.\s#:]*/gi -> 'Reg # '
rxReg(s, i) ==
    IF WordBoundary(s, i) /\ LitAtCI(s, i, <<"R","e">>) /\ ChAt(s, i + 2, CI({"g","q"}))
    THEN Match(3 + Run(s, i + 3, {".", "#", ":"} \cup SpaceCh), <<"R","e","g"," ","#"," ">>)
    ELSE NoMatch

\* /\b[Gg][Cc][\.\s#:]*/g -> 'GC # '
rxGC(s, i) ==
    IF WordBoundary(s, i) /\ ChAt(s, i, {"G","g"}) /\ ChAt(s, i + 1, {"C","c"})
    THEN Match(2 + Run(s, i + 2, {".", "#", ":"} \cup SpaceCh), <<"G","C"," ","#"," ">>)
    ELSE NoMatch

\* /[Ee]ar[\s#:]*/g -> 'Ear # '
rxEar(s, i) ==
    IF ChAt(s, i, {"E","e"}) /\ LitAt(s, i + 1, <<"a","r">>)
    THEN Match(3 + Run(s, i + 3, {"#", ":"} \cup SpaceCh), <<"E","a","r"," ","#"," ">>)
    ELSE NoMatch

\* [0-9OIl\-\/\.] ; under the i flag also o, i, L
DateCh == DigitCh \cup {"O", "I", "l", "-", "/", "."}

\* /\bBorn[\s:]*([0-9OIl\-\/\.]+)/gi -> 'Born: $1'
rxBorn(s, i) ==
    IF ~(WordBoundary(s, i) /\ LitAtCI(s, i, <<"B","o","r","n">>)) THEN NoMatch
    ELSE LET a == Run(s, i + 4, {":"} \cup SpaceCh)
             b == Run(s, i + 4 + a, CI(DateCh))
         IN IF b >= 1
            THEN Match(4 + a + b,
                       <<"B","o","r","n",":"," ">> \o SubSeq(s, i + 4 + a, i + 3 + a + b))
            ELSE NoMatch

\* /([0-9])\s*[il1]b\b/gi -> '$1 lb'
rxLb(s, i) ==
    IF ~ChAt(s, i, DigitCh) THEN NoMatch
    ELSE LET a == Run(s, i + 1, SpaceCh)
         IN IF /\ ChAt(s, i + 1 + a, CI({"i","l","1"}))
               /\ ChAt(s, i + 2 + a, {"b","B"})
               /\ WordBoundary(s, i + 3 + a)
            THEN Match(3 + a, <<s[i], " ", "l", "b">>)
            ELSE NoMatch

\* /\b([0-9])\s*[o0]z\b/gi -> '$1 oz'
rxOz(s, i) ==
    IF ~(WordBoundary(s, i) /\ ChAt(s, i, DigitCh)) THEN NoMatch
    ELSE LET a == Run(s, i + 1, SpaceCh)
         IN IF /\ ChAt(s, i + 1 + a, CI({"o","0"}))
               /\ ChAt(s, i + 2 + a, {"z","Z"})
               /\ WordBoundary(s, i + 3 + a)
            THEN Match(3 + a, <<s[i], " ", "o", "z">>)
            ELSE NoMatch

\* /[|]/g -> ' '
rxPipe(s, i) == IF s[i] = "|" THEN Match(1, <<" ">>) ELSE NoMatch

\* 'Name', 'Sire', 'Dam'
RoleWords == {<<"N","a","m","e">>, <<"S","i","r","e">>, <<"D","a","m">>}

\* /\b(Name|Sire|Dam)\b\s*:?/gi -> '\n=== $1 ===\n'
rxRole(s, i) ==
    IF ~(WordBoundary(s, i) /\ \E w \in RoleWords :
                                 LitAtCI(s, i, w) /\ WordBoundary(s, i + Len(w)))
    THEN NoMatch
    ELSE LET w == CHOOSE v \in RoleWords : LitAtCI(s, i, v) /\ WordBoundary(s, i + Len(v))
             a == Run(s, i + Len(w), SpaceCh)
             c == IF ChAt(s, i + Len(w) + a, {":"}) THEN 1 ELSE 0
         IN Match(Len(w) + a + c,
                  <<"\n","=","=","="," ">> \o SubSeq(s, i, i + Len(w) - 1)
                      \o <<" ","=","=","=","\n">>)

\* the match of a g-flag expression of preClean or segmentRabbits at position i
RegexMatch(rule, s, i) ==
    CASE rule = "cr" -> rxCR(s, i)
      [] rule = "newlines" -> rxNewlines(s, i)
      [] rule = "blanks" -> rxBlanks(s, i)
      [] rule = "variety" -> rxVariety(s, i)
      [] rule = "weight" -> rxWeight(s, i)
      [] rule = "legs" -> rxLegs(s, i)
      [] rule = "reg" -> rxReg(s, i)
      [] rule = "gc" -> rxGC(s, i)
      [] rule = "ear" -> rxEar(s, i)
      [] rule = "born" -> rxBorn(s, i)
      [] rule = "lb" -> rxLb(s, i)
      [] rule = "oz" -> rxOz(s, i)
      [] rule = "pipe" -> rxPipe(s, i)
      [] rule = "role" -> rxRole(s, i)

\* String.prototype.replace with a g-flag expression: leftmost matches, scanning
\* resumes after each match
RECURSIVE ReplaceFrom(_, _, _)
ReplaceFrom(rule, s, i) ==
    IF i > Len(s) THEN << >>
    ELSE LET m == RegexMatch(rule, s, i)
         IN IF m.len > 0 THEN m.out \o ReplaceFrom(rule, s, i + m.len)
            ELSE <<s[i]>> \o ReplaceFrom(rule, s, i + 1)

replace(s, rule) == ReplaceFrom(rule, s, 1)

preClean(s) ==
    trim(replace(replace(replace(replace(replace(replace(replace(replace(replace(
         replace(replace(replace(replace(s,
         "cr"), "newlines"), "blanks"), "variety"), "weight"), "legs"), "reg"),
         "gc"), "ear"), "born"), "lb"), "oz"), "pipe"))

-----------------------------------------------------------------------------
(* segmentRabbits, src/ocr.js:64-91                                        *)

\* String.prototype.split(/\n===\s*/): the pieces between the matches
RECURSIVE SplitFrom(_, _, _)
SplitFrom(s, i, start) ==
    IF i > Len(s) THEN <<Slice(s, start, Len(s))>>
    ELSE IF LitAt(s, i, <<"\n","=","=","=">>)
         THEN LET next == i + 4 + Run(s, i + 4, SpaceCh)
              IN <<Slice(s, start, i - 1)>> \o SplitFrom(s, next, next)
         ELSE SplitFrom(s, i + 1, start)

split(s) == SplitFrom(s, 1, 1)

\* .map(x => x.trim())
TrimAll(pieces) == [k \in DOMAIN pieces |-> trim(pieces[k])]

\* the chunks with the filter left out
KeepEmptyChunks(pieces) == pieces

\* .filter(Boolean): the empty string is falsy
FilterBoolean(pieces) == SelectSeq(pieces, LAMBDA p : p # << >>)

\* length of the match of /^((Name|Sire|Dam))\s*===?\s*/i on the chunk, 0 when none
rxChunkRole(chunk) ==
    IF ~\E w \in RoleWords : LitAtCI(chunk, 1, w) THEN 0
    ELSE LET w == CHOOSE v \in RoleWords : LitAtCI(chunk, 1, v)
             a == Run(chunk, Len(w) + 1, SpaceCh)
             e == Len(w) + 1 + a
         IN IF ~LitAt(chunk, e, <<"=","=">>) THEN 0
            ELSE LET f == IF ChAt(chunk, e + 2, {"="}) THEN e + 3 ELSE e + 2
                 IN (f - 1) + Run(chunk, f, SpaceCh)

\* m[1]: the role word as it stands in the chunk
ChunkWord(chunk) ==
    LET w == CHOOSE v \in RoleWords : LitAtCI(chunk, 1, v) IN SubSeq(chunk, 1, Len(w))

\* String.prototype.toUpperCase
UpperCase(s) == [k \in DOMAIN s |-> toUpperCase(s[k])]

NAME == <<"N","A","M","E">>
SIRE == <<"S","I","R","E">>
DAM == <<"D","A","M">>
UNKNOWN == <<"U","N","K","N","O","W","N">>

\* /^Name[:\s]/i.test(chunk)
rxChunkName(chunk) ==
    LitAtCI(chunk, 1, <<"N","a","m","e">>) /\ ChAt(chunk, 5, {":"} \cup SpaceCh)

\* the body of the loop over the chunks: one chunk to one { role, block }
ChunkBlock(chunk) ==
    LET n == rxChunkRole(chunk)
    IN IF n > 0
       THEN [role |-> UpperCase(ChunkWord(chunk)), block |-> Slice(chunk, n + 1, Len(chunk))]
       ELSE IF rxChunkName(chunk) THEN [role |-> NAME, block |-> chunk]
       ELSE [role |-> UNKNOWN, block |-> chunk]

\* the order table with the ranks of SIRE and DAM exchanged
roleRankDamFirst(role) ==
    CASE role = NAME -> 0
      [] role = SIRE -> 2
      [] role = DAM -> 1
      [] role = UNKNOWN -> 3
      [] OTHER -> 3

roleRank(role) ==
    CASE role = NAME -> 0
      [] role = SIRE -> 1
      [] role = DAM -> 2
      [] role = UNKNOWN -> 3
      [] OTHER -> 3

\* Array.prototype.sort is stable (ECMAScript 2019): an element goes after every
\* element that does not compare greater
InsertSorted(sorted, e) ==
    LET after == {k \in 1..Len(sorted) : roleRank(sorted[k].role) - roleRank(e.role) > 0}
        at == IF after = {} THEN Len(sorted) + 1
              ELSE CHOOSE k \in after : \A j \in after : k <= j
    IN Slice(sorted, 1, at - 1) \o <<e>> \o Slice(sorted, at, Len(sorted))

RECURSIVE SortFrom(_, _, _)
SortFrom(result, k, sorted) ==
    IF k > Len(result) THEN sorted
    ELSE SortFrom(result, k + 1, InsertSorted(sorted, result[k]))

\* result.sort((a,b) => roleRank(a.role) - roleRank(b.role))
sort(result) == SortFrom(result, 1, << >>)

\* the chunks of the marked text, in the order of discovery
Chunks(s) == FilterBoolean(TrimAll(split(replace(s, "role"))))

\* result before the sort
Discovered(s) == LET chunks == Chunks(s) IN [k \in DOMAIN chunks |-> ChunkBlock(chunks[k])]

segmentRabbits(s) == sort(Discovered(s))

-----------------------------------------------------------------------------
(* normalizeDate, src/ocr.js:132-141                                       *)

\* .replace(/[O]/g,'0').replace(/[Il]/g,'1').replace(/\./g,'/').replace(/-/g,'/')
DateSubst(c) ==
    CASE c = "O" -> "0"
      [] c \in {"I", "l"} -> "1"
      [] c \in {".", "-"} -> "/"
      [] OTHER -> c

DigitSeq == <<"0","1","2","3","4","5","6","7","8","9">>
\* the number a digit stands for
DigitVal(c) == (CHOOSE k \in DOMAIN DigitSeq : DigitSeq[k] = c) - 1

\* +yy for a run of digits
RECURSIVE ToNumber(_)
ToNumber(ds) ==
    IF ds = << >> THEN 0
    ELSE 10 * ToNumber(SubSeq(ds, 1, Len(ds) - 1)) + DigitVal(ds[Len(ds)])

\* String.prototype.padStart(n, '0')
RECURSIVE padStart(_, _)
padStart(s, n) == IF Len(s) >= n THEN s ELSE padStart(<<"0">> \o s, n)

\* t.match(/^(\d{1,2})\/(\d{1,2})\/(\d{2,4})$/): the groups, or ok = FALSE
rxDate(t) ==
    LET a == Run(t, 1, DigitCh)
        b == Run(t, a + 2, DigitCh)
        c == Run(t, a + b + 3, DigitCh)
    IN IF /\ a \in 1..2 /\ ChAt(t, a + 1, {"/"})
          /\ b \in 1..2 /\ ChAt(t, a + b + 2, {"/"})
          /\ c \in 2..4 /\ a + b + c + 2 = Len(t)
       THEN [ok |-> TRUE, mm |-> SubSeq(t, 1, a), dd |-> SubSeq(t, a + 2, a + b + 1),
             yy |-> SubSeq(t, a + b + 3, a + b + c + 2)]
       ELSE [ok |-> FALSE, mm |-> << >>, dd |-> << >>, yy |-> << >>]

normalizeDate(s) ==
    IF s = << >> THEN << >>
    ELSE LET t == [k \in DOMAIN s |-> DateSubst(s[k])]
             m == rxDate(t)
         IN IF ~m.ok THEN trim(s)
            ELSE LET yy == IF Len(m.yy) = 2
                           THEN (IF ToNumber(m.yy) >= 70 THEN <<"1","9">> ELSE <<"2","0">>) \o m.yy
                           ELSE m.yy
                 IN padStart(m.mm, 2) \o <<"/">> \o padStart(m.dd, 2) \o <<"/">> \o yy

-----------------------------------------------------------------------------
(* parseSection, src/ocr.js:93-130: each expression of rx as "capture of   *)
(* the match that starts at i" (ok = FALSE when it does not match there)   *)

Miss == [ok |-> FALSE, cap |-> << >>]
Hit(cap) == [ok |-> TRUE, cap |-> cap]

\* the greatest / least element of a non-empty set of numbers
Max(S) == CHOOSE k \in S : \A j \in S : k >= j
Min(S) == CHOOSE k \in S : \A j \in S : k <= j

\* [A-Za-z0-9'&\-\s]
NameCh == LetterCh \cup DigitCh \cup {"'", "&", "-"} \cup SpaceCh

\* [:\s]+ then ([A-Za-z0-9'&\-\s]{3,}) from position j: the label separator is
\* greedy and gives characters back until three or more name characters follow
NameCapture(blk, j) ==
    LET a == Run(blk, j, {":"} \cup SpaceCh)
        ks == {k \in 1..a : Run(blk, j + k, NameCh) >= 3}
    IN IF ks = {} THEN Miss
       ELSE LET k == Max(ks)
            IN Hit(SubSeq(blk, j + k, j + k + Run(blk, j + k, NameCh) - 1))

NameLabels == {<<"N","a","m","e">>, <<"R","a","b","b","i","t">>, <<"A","n","i","m","a","l">>}

\* name: /(Name|Rabbit|Animal)[:\s]+([A-Za-z0-9'&\-\s]{3,})/
rxName(blk, i) ==
    IF ~\E w \in NameLabels : LitAt(blk, i, w) THEN Miss
    ELSE LET w == CHOOSE v \in NameLabels : LitAt(blk, i, v)
         IN NameCapture(blk, i + Len(w))

\* ([A-Z0-9\-]+)\b under the i flag, from position j: the longest run that ends at
\* a word boundary
IdCapture(blk, j) ==
    LET n == Run(blk, j, LetterCh \cup DigitCh \cup {"-"})
        ns == {k \in 1..n : WordBoundary(blk, j + k)}
    IN IF ns = {} THEN Miss ELSE Hit(SubSeq(blk, j, j + Max(ns) - 1))

\* \s*#[:\s]*([A-Z0-9\-]+)\b from position j
HashIdCapture(blk, j) ==
    LET a == Run(blk, j, SpaceCh)
    IN IF ~ChAt(blk, j + a, {"#"}) THEN Miss
       ELSE IdCapture(blk, j + a + 1 + Run(blk, j + a + 1, {":"} \cup SpaceCh))

\* ear: /Ear\s*#[:\s]*([A-Z0-9\-]+)\b/i
rxEarNo(blk, i) ==
    IF LitAtCI(blk, i, <<"E","a","r">>) THEN HashIdCapture(blk, i + 3) ELSE Miss

\* reg: /Reg\s*#[:\s]*([A-Z0-9\-]+)\b/i
rxRegNo(blk, i) ==
    IF LitAtCI(blk, i, <<"R","e","g">>) THEN HashIdCapture(blk, i + 3) ELSE Miss

\* gc: /\bGC\s*#[:\s]*([A-Z0-9\-]+)\b/i
rxGCNo(blk, i) ==
    IF WordBoundary(blk, i) /\ LitAtCI(blk, i, <<"G","C">>)
    THEN HashIdCapture(blk, i + 2) ELSE Miss

\* Weight|Legs|Ear|Reg|GC|Born|Sire|Dam
StopLabels == {<<"W","e","i","g","h","t">>, <<"L","e","g","s">>, <<"E","a","r">>,
               <<"R","e","g">>, <<"G","C">>, <<"B","o","r","n">>,
               <<"S","i","r","e">>, <<"D","a","m">>}

\* [A-Za-z\s\(\)\/\-]
VarietyCh == LetterCh \cup SpaceCh \cup {"(", ")", "/", "-"}

\* variety: /Variety[:\s]+([A-Za-z][A-Za-z\s\(\)\/\-]+?)\b(?=Weight|...|Dam|$)/i :
\* the shortest capture that ends at a word boundary before a label or the end
rxVarietyVal(blk, i) ==
    IF ~LitAtCI(blk, i, <<"V","a","r","i","e","t","y">>) THEN Miss
    ELSE LET a == Run(blk, i + 7, {":"} \cup SpaceCh)
             j == i + 7 + a
             n == Run(blk, j + 1, VarietyCh)
             ns == {k \in 1..n :
                      /\ WordBoundary(blk, j + 1 + k)
                      /\ \/ j + k = Len(blk)
                         \/ \E w \in StopLabels : LitAtCI(blk, j + 1 + k, w)}
         IN IF a >= 1 /\ ChAt(blk, j, LetterCh) /\ ns # {}
            THEN Hit(SubSeq(blk, j, j + Min(ns)))
            ELSE Miss

\* [0-9]{1,2} at position j, followed by something that is no digit: its length, or 0
Digits12(blk, j) == LET d == Run(blk, j, DigitCh) IN IF d \in 1..2 THEN d ELSE 0

\* weight: /Weight[:\s]*([0-9]{1,2}\s*lb\s*[0-9]{1,2}\s*oz)/i
rxWeightVal(blk, i) ==
    IF ~LitAtCI(blk, i, <<"W","e","i","g","h","t">>) THEN Miss
    ELSE LET j == i + 6 + Run(blk, i + 6, {":"} \cup SpaceCh)
             d1 == Digits12(blk, j)
             l == j + d1 + Run(blk, j + d1, SpaceCh)
             k == l + 2 + Run(blk, l + 2, SpaceCh)
             d2 == Digits12(blk, k)
             o == k + d2 + Run(blk, k + d2, SpaceCh)
         IN IF /\ d1 > 0 /\ LitAtCI(blk, l, <<"l","b">>)
               /\ d2 > 0 /\ LitAtCI(blk, o, <<"o","z">>)
            THEN Hit(SubSeq(blk, j, o + 1))
            ELSE Miss

\* legs: /Legs?[:\s]*([0-9]{1,2})\b/i
rxLegsVal(blk, i) ==
    IF ~LitAtCI(blk, i, <<"L","e","g">>) THEN Miss
    ELSE LET s1 == IF ChAt(blk, i + 3, {"s", "S"}) THEN 1 ELSE 0
             j == i + 3 + s1 + Run(blk, i + 3 + s1, {":"} \cup SpaceCh)
             d == Digits12(blk, j)
         IN IF d > 0 /\ WordBoundary(blk, j + d) THEN Hit(SubSeq(blk, j, j + d - 1)) ELSE Miss

\* born: /Born[:\s]*([0-9OIl\-\/\.]{6,12})/i
rxBornVal(blk, i) ==
    IF ~LitAtCI(blk, i, <<"B","o","r","n">>) THEN Miss
    ELSE LET j == i + 4 + Run(blk, i + 4, {":"} \cup SpaceCh)
             n == Run(blk, j, CI(DateCh))
         IN IF n >= 6 THEN Hit(SubSeq(blk, j, j + (IF n > 12 THEN 12 ELSE n) - 1)) ELSE Miss

\* /^(?:Sire|Dam)[:\s]+([A-Za-z0-9'&\-\s]{3,})/i : matches at the start of blk only
rxInferred(blk, i) ==
    IF i # 1 THEN Miss
    ELSE IF LitAtCI(blk, 1, <<"S","i","r","e">>) THEN NameCapture(blk, 5)
    ELSE IF LitAtCI(blk, 1, <<"D","a","m">>) THEN NameCapture(blk, 4)
    ELSE Miss

\* the expressions of rx, and the one of inferredName, by name
rx(field, blk, i) ==
    CASE field = "name" -> rxName(blk, i)
      [] field = "ear" -> rxEarNo(blk, i)
      [] field = "reg" -> rxRegNo(blk, i)
      [] field = "gc" -> rxGCNo(blk, i)
      [] field = "variety" -> rxVarietyVal(blk, i)
      [] field = "weight" -> rxWeightVal(blk, i)
      [] field = "legs" -> rxLegsVal(blk, i)
      [] field = "born" -> rxBornVal(blk, i)
      [] field = "inferred" -> rxInferred(blk, i)

\* grab(r): the trimmed capture of the leftmost match of r in blk, '' when none
grab(field, blk) ==
    LET hits == {i \in 1..Len(blk) : rx(field, blk, i).ok}
    IN IF hits = {} THEN << >> ELSE trim(rx(field, blk, Min(hits)).cap)

\* ' ' + sec.block.replace(/\n/g, ' ') + ' '
Padded(block) == <<" ">> \o [k \in DOMAIN block |-> IF block[k] = "\n" THEN " " ELSE block[k]] \o <<" ">>

\* /^(SIRE|DAM)/i.test(sec.role)
rxRoleImpliesName(role) == LitAtCI(role, 1, SIRE) \/ LitAtCI(role, 1, DAM)

inferredName(sec) ==
    LET blk == Padded(sec.block)
    IN IF grab("name", blk) = << >> /\ rxRoleImpliesName(sec.role)
       THEN grab("inferred", blk) ELSE << >>

parseSection(sec) ==
    LET blk == Padded(sec.block)
        name == grab("name", blk)
    IN [Role |-> sec.role,
        Name |-> IF name # << >> THEN name ELSE inferredName(sec),
        Ear |-> grab("ear", blk),
        Reg |-> grab("reg", blk),
        GC |-> grab("gc", blk),
        Variety |-> grab("variety", blk),
        Weight |-> grab("weight", blk),
        Legs |-> grab("legs", blk),
        Born |-> normalizeDate(grab("born", blk))]

-----------------------------------------------------------------------------
(* renderReadable and renderTSV, src/ocr.js:143-168                        *)

\* Array.prototype.join
RECURSIVE join(_, _)
join(lines, sep) ==
    IF lines = << >> THEN << >>
    ELSE IF Len(lines) = 1 THEN lines[1]
    ELSE lines[1] \o sep \o join(Tail(lines), sep)

\* String(n) for a number n >= 0
RECURSIVE NumberToString(_)
NumberToString(n) ==
    IF n < 10 THEN <<DigitSeq[n + 1]>>
    ELSE NumberToString(n \div 10) \o <<DigitSeq[(n % 10) + 1]>>

\* the character U+2014, written by name
EmDash == "EMDASH"

\* l.replace(/&/g,'&amp;').replace(/</g,'&lt;')
Escape(l) ==
    Flatten([k \in DOMAIN l |->
               CASE l[k] = "&" -> <<"&","a","m","p",";">>
                 [] l[k] = "<" -> <<"&","l","t",";">>
                 [] OTHER -> <<l[k]>>])

\* `  ${label}: ${value}` when the value is not empty
FieldLine(label, value) ==
    IF value = << >> THEN << >> ELSE <<(<<" ", " ">> \o label \o <<":", " ">> \o value)>>

\* the lines pushed for the record r at index i (from 0)
RecordLines(r, i) ==
    <<(<<"R">> \o NumberToString(i + 1) \o <<" ", EmDash, " ">> \o r.Role)>>
    \o FieldLine(<<"N","a","m","e">>, r.Name)
    \o FieldLine(<<"V","a","r","i","e","t","y">>, r.Variety)
    \o FieldLine(<<"E","a","r"," ","#">>, r.Ear)
    \o FieldLine(<<"R","e","g"," ","#">>, r.Reg)
    \o FieldLine(<<"G","C"," ","#">>, r.GC)
    \o FieldLine(<<"W","e","i","g","h","t">>, r.Weight)
    \o FieldLine(<<"L","e","g","s">>, r.Legs)
    \o FieldLine(<<"B","o","r","n">>, r.Born)
    \o << << >> >>

renderReadable(rows) ==
    LET lines == Flatten([i \in DOMAIN rows |-> RecordLines(rows[i], i - 1)])
    IN join([k \in DOMAIN lines |-> Escape(lines[k])], <<"<","b","r",">">>)

\* a value of a row of renderTSV: i+1 is a number, the fields are strings
Number(n) == [type |-> "number", num |-> n, str |-> << >>]
String(v) == [type |-> "string", num |-> 0, str |-> v]

\* the result of a call: a value, or an exception thrown
Returned(v) == [threw |-> FALSE, value |-> v]
TypeError == [threw |-> TRUE, value |-> << >>]

\* .replace(/\t/g, ' ').replace(/\r?\n/g, ' ')
RECURSIVE SafeFrom(_, _)
SafeFrom(v, i) ==
    IF i > Len(v) THEN << >>
    ELSE IF v[i] = "\t" THEN <<" ">> \o SafeFrom(v, i + 1)
    ELSE IF v[i] = "\r" /\ ChAt(v, i + 1, {"\n"}) THEN <<" ">> \o SafeFrom(v, i + 2)
    ELSE IF v[i] = "\n" THEN <<" ">> \o SafeFrom(v, i + 1)
    ELSE <<v[i]>> \o SafeFrom(v, i + 1)

\* safe = v => (v || '').replace(...).replace(...).trim() : v || '' is v for a number
\* other than 0, and a number has no replace method
safe(v) ==
    IF v.type = "number" /\ v.num # 0 THEN TypeError
    ELSE Returned(trim(SafeFrom(v.str, 1)))

\* 'Index','Role','Name','Variety','Ear','Reg','GC','Weight','Legs','Born'
header == << <<"I","n","d","e","x">>, <<"R","o","l","e">>, <<"N","a","m","e">>,
             <<"V","a","r","i","e","t","y">>, <<"E","a","r">>, <<"R","e","g">>,
             <<"G","C">>, <<"W","e","i","g","h","t">>, <<"L","e","g","s">>,
             <<"B","o","r","n">> >>

\* [i+1, r.Role, r.Name, r.Variety, r.Ear, r.Reg, r.GC, r.Weight, r.Legs, r.Born]
RowValues(r, i) ==
    <<Number(i + 1), String(r.Role), String(r.Name), String(r.Variety), String(r.Ear),
      String(r.Reg), String(r.GC), String(r.Weight), String(r.Legs), String(r.Born)>>

renderTSV(rows) ==
    LET cells == [i \in DOMAIN rows |->
                    LET vs == RowValues(rows[i], i - 1) IN [k \in DOMAIN vs |-> safe(vs[k])]]
    IN IF \E i \in DOMAIN cells : \E k \in DOMAIN cells[i] : cells[i][k].threw
       THEN TypeError
       ELSE LET body == [i \in DOMAIN cells |->
                           join([k \in DOMAIN cells[i] |-> cells[i][k].value], <<"\t">>)]
            IN Returned(join(<<join(header, <<"\t">>)>> \o body, <<"\n">>))

-----------------------------------------------------------------------------
(* The OCR run: the DOMContentLoaded handler (src/unnamed/part_000:2-44)   *)
(* and runOCR (src/ocr.js:5-38). A step is the code between two awaits.    *)

VARIABLES
    entry,       \* the entry point that started the run: "handler" or "runOCR"
    imageUrl,    \* params.get('image') / the imageUrl argument
    pc,          \* the await the run is suspended at, "start" or "done"
    settled,     \* the promise of the run: "pending", "fulfilled" or "rejected"
    error,       \* what rejected it: "none", "engine" or "TypeError"
    progressEl,  \* progressEl.textContent
    previewSrc,  \* preview.src
    outputEl,    \* outputEl.innerHTML
    tsvEl,       \* tsvEl.textContent
    worker,      \* the Tesseract worker: created, logger set, calls made of each method
    text,        \* data.text of recognize
    arg,         \* the argument of a pipeline function called on its own
    res          \* the results of the calls made on arg, in order

runVars == <<entry, imageUrl, pc, settled, error, progressEl, previewSrc, outputEl,
             tsvEl, worker, text>>
vars == <<entry, imageUrl, pc, settled, error, progressEl, previewSrc, outputEl,
          tsvEl, worker, text, arg, res>>

\* concatenations of at most n fragments
RECURSIVE Concats(_, _)
Concats(frags, n) ==
    IF n = 0 THEN {<< >>}
    ELSE LET shorter == Concats(frags, n - 1)
         IN shorter \cup {p \o f : p \in shorter, f \in frags}

\* an image reference: null, '' or a locator
Null == [isNull |-> TRUE, str |-> << >>]
Str(v) == [isNull |-> FALSE, str |-> v]
ImageUrls == {Null, Str(<< >>), Str(<<"c",".","p","n","g">>)}
\* !imageUrl
Falsy(v) == v.isNull \/ v.str = << >>

\* the texts of progressEl (the emoji that open three of them are left out)
InitialText == ""
NoImageText == "No image URL detected. Make sure you are passing ?image=..."
LoadingText == "Loading and scanning image..."
ScanningText == "Scanning: "
HandlerCompleteText == "OCR complete - copy this text into your importer field."
CompleteText == "OCR complete - copy TSV into Glide (or use readable for review)."

Shown(t) == [text |-> t, pct |-> 0]
\* `Scanning: ${(m.progress * 100).toFixed(1)}%`, the percentage in tenths
Scanning(m) == [text |-> ScanningText, pct |-> m.progress]

\* the messages the engine passes to the logger; progress in thousandths
ProgressValues == {0, 505, 1000}
LoggerMessages == [status : {"recognizing text", "initializing api"}, progress : ProgressValues]

NotWritten == [written |-> FALSE, value |-> << >>]
Written(v) == [written |-> TRUE, value |-> v]

NoWorker == [created |-> FALSE, logger |-> FALSE, createWorker |-> 0, loadLanguage |-> 0,
             initialize |-> 0, recognize |-> 0, terminate |-> 0]

\* the bound on the fragments of a recognized text
MaxOcrFragments == 2
OcrFragments == {<<"N","a","m","e",":"," ","B","o"," ">>,
                 <<"S","i","r","e"," ","A","l"," ","e","a","r",":","A","1","\r","\n">>,
                 <<"a","r","i","e","t","y",":"," ","T","a","n"," ","|">>,
                 <<" ","\n">>}
OcrTexts == Concats(OcrFragments, MaxOcrFragments)

FunctionIdle == arg = << >> /\ res = << >>

Init ==
    /\ entry \in {"handler", "runOCR"}
    /\ imageUrl \in ImageUrls
    /\ pc = "start"
    /\ settled = "pending"
    /\ error = "none"
    /\ progressEl = Shown(InitialText)
    /\ previewSrc = << >>
    /\ outputEl = NotWritten
    /\ tsvEl = NotWritten
    /\ worker = NoWorker
    /\ text = << >>
    /\ FunctionIdle

\* part_000:3-26: the input check, then Tesseract.createWorker() is called
HandlerStart ==
    /\ entry = "handler" /\ pc = "start"
    /\ IF Falsy(imageUrl)
       THEN /\ progressEl' = Shown(NoImageText)
            /\ pc' = "done"
            /\ settled' = "fulfilled"
            /\ UNCHANGED <<previewSrc, worker>>
       ELSE /\ previewSrc' = imageUrl.str
            /\ progressEl' = Shown(LoadingText)
            /\ worker' = [worker EXCEPT !.createWorker = @ + 1]
            /\ pc' = "createWorker"
            /\ UNCHANGED settled
    /\ UNCHANGED <<entry, imageUrl, error, outputEl, tsvEl, text, arg, res>>

\* ocr.js:5-12: no check of imageUrl; Tesseract.createWorker() is called
RunOCRStart ==
    /\ entry = "runOCR" /\ pc = "start"
    /\ worker' = [worker EXCEPT !.createWorker = @ + 1]
    /\ pc' = "createWorker"
    /\ UNCHANGED <<entry, imageUrl, settled, error, progressEl, previewSrc, outputEl,
                   tsvEl, text, arg, res>>

\* ocr.js:12-15, part_000:26-29: the worker arrives, the logger is set, loadLanguage is called
CreateWorkerResolves ==
    /\ pc = "createWorker"
    /\ worker' = [worker EXCEPT !.created = TRUE, !.logger = TRUE, !.loadLanguage = @ + 1]
    /\ pc' = "loadLanguage"
    /\ UNCHANGED <<entry, imageUrl, settled, error, progressEl, previewSrc, outputEl,
                   tsvEl, text, arg, res>>

\* ocr.js:15-16, part_000:29-30
LoadLanguageResolves ==
    /\ pc = "loadLanguage"
    /\ worker' = [worker EXCEPT !.initialize = @ + 1]
    /\ pc' = "initialize"
    /\ UNCHANGED <<entry, imageUrl, settled, error, progressEl, previewSrc, outputEl,
                   tsvEl, text, arg, res>>

\* ocr.js:16-18, part_000:30-32
InitializeResolves ==
    /\ pc = "initialize"
    /\ worker' = [worker EXCEPT !.recognize = @ + 1]
    /\ pc' = "recognize"
    /\ UNCHANGED <<entry, imageUrl, settled, error, progressEl, previewSrc, outputEl,
                   tsvEl, text, arg, res>>

\* updateProgress(m), ocr.js:6-10, part_000:19-23: called by the engine while it works
Logger ==
    /\ pc \in {"loadLanguage", "initialize", "recognize"}
    /\ worker.logger
    /\ \E m \in LoggerMessages :
          progressEl' = IF m.status = "recognizing text" THEN Scanning(m) ELSE progressEl
    /\ UNCHANGED <<entry, imageUrl, pc, settled, error, previewSrc, outputEl, tsvEl,
                   worker, text, arg, res>>

\* an await of createWorker, loadLanguage, initialize or recognize rejects: there is
\* no try, catch or finally, so the run's promise rejects and nothing else happens
EngineRejects ==
    /\ pc \in {"createWorker", "loadLanguage", "initialize", "recognize"}
    /\ settled' = "rejected"
    /\ error' = "engine"
    /\ pc' = "done"
    /\ UNCHANGED <<entry, imageUrl, progressEl, previewSrc, outputEl, tsvEl, worker,
                   text, arg, res>>

\* text.split('\n')
RECURSIVE SplitLines(_, _, _)
SplitLines(s, i, start) ==
    IF i > Len(s) THEN <<Slice(s, start, Len(s))>>
    ELSE IF s[i] = "\n" THEN <<Slice(s, start, i - 1)>> \o SplitLines(s, i + 1, i + 1)
    ELSE SplitLines(s, i + 1, start)

\* part_000:34-38
formatted(t) == join(FilterBoolean(TrimAll(SplitLines(t, 1, 1))), <<"<","b","r",">">>)

\* part_000:32-43: recognize resolves; the handler shows the text, then calls terminate
HandlerRecognizeResolves ==
    /\ entry = "handler" /\ pc = "recognize"
    /\ \E t \in OcrTexts :
          /\ text' = t
          /\ outputEl' = Written(formatted(t))
    /\ progressEl' = Shown(HandlerCompleteText)
    /\ worker' = [worker EXCEPT !.terminate = @ + 1]
    /\ pc' = "terminate"
    /\ UNCHANGED <<entry, imageUrl, settled, error, previewSrc, tsvEl, arg, res>>

\* part_000:43-44
HandlerTerminateResolves ==
    /\ entry = "handler" /\ pc = "terminate"
    /\ settled' = "fulfilled"
    /\ pc' = "done"
    /\ UNCHANGED <<entry, imageUrl, error, progressEl, previewSrc, outputEl, tsvEl,
                   worker, text, arg, res>>

\* ocr.js:18-19: recognize resolves; runOCR calls terminate
RunOCRRecognizeResolves ==
    /\ entry = "runOCR" /\ pc = "recognize"
    /\ \E t \in OcrTexts : text' = t
    /\ worker' = [worker EXCEPT !.terminate = @ + 1]
    /\ pc' = "terminate"
    /\ UNCHANGED <<entry, imageUrl, settled, error, progressEl, previewSrc, outputEl,
                   tsvEl, arg, res>>

\* ocr.js:28: sections.map(parseSection)
ParseAll(sections) == [k \in DOMAIN sections |-> parseSection(sections[k])]

\* ocr.js:34-37: the rendered outputs are written and the progress line is completed,
\* unless renderTSV has thrown, which rejects the run before the first write
WriteOutputs(readable, tsv) ==
    IF tsv.threw
    THEN /\ settled' = "rejected"
         /\ error' = "TypeError"
         /\ UNCHANGED <<outputEl, tsvEl, progressEl>>
    ELSE /\ outputEl' = Written(readable)
         /\ tsvEl' = Written(tsv.value)
         /\ progressEl' = Shown(CompleteText)
         /\ settled' = "fulfilled"
         /\ UNCHANGED error

\* ocr.js:31-32: both renderings are computed from the parsed rabbits
Render(rabbits) == WriteOutputs(renderReadable(rabbits), renderTSV(rabbits))

\* ocr.js:19-38: terminate resolves; the text is cleaned, segmented, parsed and rendered
RunOCRTerminateResolves ==
    /\ entry = "runOCR" /\ pc = "terminate"
    /\ Render(ParseAll(segmentRabbits(preClean(text))))
    /\ pc' = "done"
    /\ UNCHANGED <<entry, imageUrl, previewSrc, worker, text, arg, res>>

Next ==
    \/ HandlerStart
    \/ RunOCRStart
    \/ CreateWorkerResolves
    \/ LoadLanguageResolves
    \/ InitializeResolves
    \/ Logger
    \/ EngineRejects
    \/ HandlerRecognizeResolves
    \/ HandlerTerminateResolves
    \/ RunOCRRecognizeResolves
    \/ RunOCRTerminateResolves

Spec == Init /\ [][Next]_vars

-----------------------------------------------------------------------------
(* The pipeline functions called on their own: arg is drawn from a bounded *)
(* set of inputs, res collects the results.                                *)

RunIdle ==
    /\ entry = "none" /\ imageUrl = Null /\ pc = "idle" /\ settled = "pending"
    /\ error = "none" /\ progressEl = Shown(InitialText) /\ previewSrc = << >>
    /\ outputEl = NotWritten /\ tsvEl = NotWritten /\ worker = NoWorker /\ text = << >>

\* preClean(s), then preClean of the result
MaxPreCleanFragments == 2
PreCleanFragments ==
    {<<"V","a","r","i","e","t","y">>, <<"a","r","i","e","t","y",":">>, <<" ","|"," ">>,
     <<"a">>, <<" ">>, <<"\r">>, <<"\n">>, <<"\t">>, <<"W","e","1","g","h","t">>,
     <<"L","e","g","5">>, <<"R","e","q",".">>, <<"g","c","#">>, <<"e","a","r",":">>,
     <<"B","o","r","n"," "," ","1","1","-","O","1">>, <<"4","1","b">>, <<"2","0","z">>}
PreCleanInputs == Concats(PreCleanFragments, MaxPreCleanFragments)

InitPreClean == RunIdle /\ arg \in PreCleanInputs /\ res = << >>

CallPreClean ==
    /\ Len(res) = 0
    /\ res' = <<preClean(arg)>>
    /\ UNCHANGED arg /\ UNCHANGED runVars

CallPreCleanAgain ==
    /\ Len(res) = 1
    /\ res' = Append(res, preClean(res[1]))
    /\ UNCHANGED arg /\ UNCHANGED runVars

NextPreClean == CallPreClean \/ CallPreCleanAgain
SpecPreClean == InitPreClean /\ [][NextPreClean]_vars

\* segmentRabbits(s)
MaxSegmentFragments == 4
SegmentPrefixes == {<< >>, <<"\n","=","=","=">>, <<"x">>}
SegmentFragments ==
    {<<"N","a","m","e",":","A"," ">>, <<"n","a","m","e","\n">>, <<"s","i","r","e",":">>,
     <<"D","a","m"," ">>, <<"=">>, <<"x"," ">>}
SegmentInputs ==
    {p \o t : p \in SegmentPrefixes, t \in Concats(SegmentFragments, MaxSegmentFragments)}

InitSegment == RunIdle /\ arg \in SegmentInputs /\ res = << >>

CallSegmentRabbits ==
    /\ Len(res) = 0
    /\ res' = <<segmentRabbits(arg)>>
    /\ UNCHANGED arg /\ UNCHANGED runVars

NextSegment == CallSegmentRabbits
SpecSegment == InitSegment /\ [][NextSegment]_vars

\* normalizeDate(s): month, separator, day, separator, year
MaxDayDigits == 2
MaxYearDigits == 5
DateInputs ==
    {mm \o s1 \o dd \o s2 \o yy :
        mm \in Concats({<<"1">>, <<"O">>}, MaxDayDigits),
        s1 \in {<<"/">>, <<"-">>},
        dd \in Concats({<<"5">>, <<"l">>}, MaxDayDigits),
        s2 \in {<<"/">>, <<".">>},
        yy \in Concats({<<"7">>, <<"0">>}, MaxYearDigits) \cup {<<"6","9">>}}

InitDate == RunIdle /\ arg \in DateInputs /\ res = << >>

CallNormalizeDate ==
    /\ Len(res) = 0
    /\ res' = <<normalizeDate(arg)>>
    /\ UNCHANGED arg /\ UNCHANGED runVars

NextDate == CallNormalizeDate
SpecDate == InitDate /\ [][NextDate]_vars

\* parseSection(sec)
MaxSectionFragments == 2
\* ' Sire: Big Chief Ear # AB-12 '
BigChief == <<" ","S","i","r","e",":"," ","B","i","g"," ","C","h","i","e","f"," ",
              "E","a","r"," ","#"," ","A","B","-","1","2"," ">>
SectionFragments ==
    {<<"S","i","r","e",":"," ","A","l"," ","B">>, <<"D","a","m",":","F","l","o">>,
     <<" ">>, <<"E","a","r"," ","#"," ","A","B","-","1","2"," ">>,
     <<"N","a","m","e",":"," ","B","o","\n">>,
     <<"V","a","r","i","e","t","y",":"," ","T","a","n"," ","L","e","g","s",":","4"," ">>,
     <<"B","o","r","n",":"," ","1","/","2","/","9","9"," ">>}
SectionInputs ==
    [role : {NAME, SIRE, DAM, UNKNOWN},
     block : Concats(SectionFragments, MaxSectionFragments) \cup {BigChief}]

InitSection == RunIdle /\ arg \in SectionInputs /\ res = << >>

CallParseSection ==
    /\ Len(res) = 0
    /\ res' = <<parseSection(arg)>>
    /\ UNCHANGED arg /\ UNCHANGED runVars

NextSection == CallParseSection
SpecSection == InitSection /\ [][NextSection]_vars

\* renderTSV(rows)
MaxRows == 2
RowBlocks == {<< >>, <<"B","o","\t","E","a","r"," ","#","A","1">>,
              <<"V","a","r","i","e","t","y",":"," ","T","a","n"," ","L","e","g","s",":","4"," ">>,
              <<"B","o","r","n",":"," ","1","/","2","/","9","9"," ">>,
              <<"W","e","i","g","h","t"," ","4","l","b","2","o","z">>}
RowRecords == {parseSection(sec) : sec \in [role : {NAME, UNKNOWN}, block : RowBlocks]}
RowInputs == UNION {[1..n -> RowRecords] : n \in 0..MaxRows}

InitRows == RunIdle /\ arg \in RowInputs /\ res = << >>

CallRenderTSV ==
    /\ Len(res) = 0
    /\ res' = <<renderTSV(arg)>>
    /\ UNCHANGED arg /\ UNCHANGED runVars

NextRows == CallRenderTSV
SpecRows == InitRows /\ [][NextRows]_vars

-----------------------------------------------------------------------------
(* The claims                                                              *)

\* C1: every run that creates a worker has called terminate() on it by the time it
\* ends, whether recognize() (or an earlier engine call) resolved or rejected.
C1_WorkerTerminated ==
    (pc = "done" /\ worker.created) => worker.terminate >= 1

\* C2: a run that ends on an engine failure shows a failure message in the progress
\* element: the text is none of the messages of a run without failure (initial,
\* loading, scanning, complete), and no engine call was made twice.
C2_FailureShown ==
    (pc = "done" /\ error = "engine") =>
        /\ progressEl.text \notin {InitialText, LoadingText, ScanningText,
                                   HandlerCompleteText, CompleteText}
        /\ worker.createWorker <= 1 /\ worker.recognize <= 1

\* C3: with no image reference (null or '') the pipeline does not start, from either
\* entry point: no worker is asked for, recognize() is not called, no output is
\* written, and the run ends showing the missing-image message.
C3_MissingInputStopsRun ==
    Falsy(imageUrl) /\ pc \notin {"start", "idle"} =>
        /\ worker.createWorker = 0 /\ worker.recognize = 0
        /\ ~outputEl.written /\ ~tsvEl.written
        /\ progressEl = Shown(NoImageText)

\* the first line of a text
FirstLine(t) == SplitLines(t, 1, 1)[1]

\* C4: renderTSV returns for every record list (it does not throw), the first line
\* of what it returns is the header, and there is one line per record after it.
C4_HeaderFirst ==
    Len(res) = 1 =>
        /\ ~res[1].threw
        /\ FirstLine(res[1].value) = join(header, <<"\t">>)
        /\ Len(SplitLines(res[1].value, 1, 1)) = 1 + Len(arg)

\* C5: preClean is idempotent: preClean(preClean(s)) = preClean(s).
C5_PreCleanIdempotent ==
    Len(res) = 2 => res[2] = res[1]

\* the rank of a role in the record list: SUBJECT (NAME) 0, SIRE 1, DAM 2, UNKNOWN 3
RankOfRole(role) ==
    IF role = NAME THEN 0 ELSE IF role = SIRE THEN 1 ELSE IF role = DAM THEN 2 ELSE 3

OfRank(blocks, n) == SelectSeq(blocks, LAMBDA b : RankOfRole(b.role) = n)

\* C6: the blocks segmentRabbits returns are in the order of their ranks, and the
\* blocks of each role are the blocks discovered with that role, in the order of
\* their discovery: the sort adds, drops and alters nothing.
C6_SortedStable ==
    Len(res) = 1 =>
        LET found == Discovered(arg)
            rank == [k \in DOMAIN res[1] |-> RankOfRole(res[1][k].role)]
        IN /\ \A i, j \in DOMAIN rank : i < j => rank[i] <= rank[j]
           /\ Len(res[1]) = Len(found)
           /\ \A n \in 0..3 : OfRank(res[1], n) = OfRank(found, n)

\* a call whose result has two blocks of one role with different contents, and
\* whose blocks were not discovered in the order returned
C6_Witness ==
    /\ Len(res) = 1
    /\ res[1] # Discovered(arg)
    /\ \E i, j \in DOMAIN res[1] :
          i < j /\ res[1][i].role = res[1][j].role /\ res[1][i].block # res[1][j].block

\* the positions of the whole-word occurrences of w in s, whatever the case
Occurrences(s, w) ==
    {i \in 1..Len(s) : WordBoundary(s, i) /\ LitAtCI(s, i, w) /\ WordBoundary(s, i + Len(w))}

\* exactly one whole-word Name, Sire and Dam, in that order
OneOfEachInOrder(s) ==
    LET names == Occurrences(s, <<"N","a","m","e">>)
        sires == Occurrences(s, <<"S","i","r","e">>)
        dams == Occurrences(s, <<"D","a","m">>)
    IN /\ Cardinality(names) = 1 /\ Cardinality(sires) = 1 /\ Cardinality(dams) = 1
       /\ Min(names) < Min(sires)
       /\ Min(sires) < Min(dams)

Roles(blocks) == [k \in DOMAIN blocks |-> blocks[k].role]

\* C7 as stated: one Name, Sire and Dam in that order give exactly the three blocks
\* NAME, SIRE, DAM, also when other text precedes the first keyword.
C7_ExactlyThreeBlocks ==
    Len(res) = 1 /\ OneOfEachInOrder(arg) => Roles(res[1]) = <<NAME, SIRE, DAM>>

\* s contains '==='
HasTripleEquals(s) == \E i \in 1..Len(s) : LitAt(s, i, <<"=","=","=">>)

\* the text before the first keyword, and the text that follows the k-th keyword
\* (with its spaces and colon) up to the next keyword or the end
TextBefore(s) == Slice(s, 1, Min(Occurrences(s, <<"N","a","m","e">>)) - 1)
TextAfter(s, w, next) ==
    LET i == Min(Occurrences(s, w)) IN Slice(s, i + rxRole(s, i).len, next - 1)

\* C7 as amended: for a text without '===', the blocks are NAME, SIRE, DAM in that
\* order, each holding the trimmed text that follows its keyword (empty when nothing
\* follows), and after them one UNKNOWN block holding the text before the first
\* keyword when that text is not blank; there are no other blocks.
C7_ThreeBlocksThenPreamble ==
    Len(res) = 1 /\ OneOfEachInOrder(arg) /\ ~HasTripleEquals(arg) =>
        LET sireAt == Min(Occurrences(arg, <<"S","i","r","e">>))
            damAt == Min(Occurrences(arg, <<"D","a","m">>))
            three == <<[role |-> NAME, block |-> trim(TextAfter(arg, <<"N","a","m","e">>, sireAt))],
                       [role |-> SIRE, block |-> trim(TextAfter(arg, <<"S","i","r","e">>, damAt))],
                       [role |-> DAM,
                        block |-> trim(TextAfter(arg, <<"D","a","m">>, Len(arg) + 1))]>>
        IN res[1] = IF trim(TextBefore(arg)) = << >> THEN three
                    ELSE Append(three, [role |-> UNKNOWN, block |-> trim(TextBefore(arg))])

\* a call on a text with one of each keyword in order, text before the first and a
\* keyword that nothing follows
C7_Witness ==
    /\ Len(res) = 1 /\ OneOfEachInOrder(arg) /\ ~HasTripleEquals(arg)
    /\ trim(TextBefore(arg)) # << >>
    /\ Len(res[1]) = 4
    /\ \E k \in 1..3 : res[1][k].block = << >>

\* two digits, '/', two digits, '/', four digits
WellFormedDate(d) ==
    /\ Len(d) = 10
    /\ \A k \in {1, 2, 4, 5, 7, 8, 9, 10} : d[k] \in DigitCh
    /\ d[3] = "/" /\ d[6] = "/"

\* C8: normalizeDate of a non-empty token is a well-formed MM/DD/YYYY date or the
\* trimmed token itself.
C8_DateOrOriginal ==
    Len(res) = 1 /\ arg # << >> => WellFormedDate(res[1]) \/ res[1] = trim(arg)

\* a block without a name label
NoNameLabel(block) ==
    \A i \in 1..Len(block) : \A w \in NameLabels : ~LitAt(block, i, w)

\* C9: for a SIRE or DAM block without a Name, Rabbit or Animal label whose content
\* begins with 'Sire' or 'Dam', a separator and three or more name characters,
\* parseSection returns that run of name characters, trimmed, as Name.
C9_NameInferred ==
    (/\ Len(res) = 1
     /\ arg.role \in {SIRE, DAM}
     /\ NoNameLabel(arg.block)
     /\ rxInferred(trim(arg.block), 1).ok)
    => res[1].Name = trim(rxInferred(trim(arg.block), 1).cap)

\* C10: a run of runOCR in which recognize() resolved ends with both outputs
\* written and the progress text set to the message of completion.
C10_OutputsWritten ==
    (entry = "runOCR" /\ pc = "done" /\ worker.terminate >= 1) =>
        /\ outputEl.written /\ tsvEl.written
        /\ progressEl = Shown(CompleteText)

====
